---- MODULE Spec2Model ----
(***************************************************************************)
(* A model of codejail/safe_exec.py: the isolated executor safe_exec, the  *)
(* program text it generates for the far side (the value reduction and the *)
(* sentinel framing), the caller-side filter json_safe, the in-process     *)
(* executor not_safe_exec and the UNSAFE strategy switch.                  *)
(***************************************************************************)
EXTENDS Integers, Sequences, FiniteSets, TLC

(***************************************************************************)
(* Python values.  Text is a TLA+ string, so len() is Len.                 *)
(***************************************************************************)
PyNone == [t |-> "none"]
PyBool(b) == [t |-> "bool", b |-> b]
PyInt(n) == [t |-> "int", n |-> n]
PyFloat(r) == [t |-> "float", r |-> r]
\* lone: the text holds an unpaired surrogate (safe_exec.py, lines 232-236)
PyStr(s) == [t |-> "str", s |-> s, lone |-> FALSE]
PyLoneStr(s) == [t |-> "str", s |-> s, lone |-> TRUE]
PyList(items) == [t |-> "list", items |-> items]
PyTuple(items) == [t |-> "tuple", items |-> items]
PyDict(pairs) == [t |-> "dict", pairs |-> pairs]
Pair(k, v) == [key |-> k, val |-> v]
\* An instance of a user class: text is what __str__ returns; the flags say
\* whether str(), str(type()) and pickle.dumps() succeed on it.
PyObj(text, canstr, cantype, canpickle) ==
    [t |-> "obj", text |-> text, canstr |-> canstr, cantype |-> cantype,
     canpickle |-> canpickle]

RECURSIVE Rep(_, _)
Rep(c, n) == IF n = 0 THEN "" ELSE c \o Rep(c, n - 1)

(***************************************************************************)
(* str(), repr() and str(type()) of Python 2.                              *)
(***************************************************************************)
RECURSIVE ReprOk(_), ReprOkAll(_), Repr(_), ReprJoin(_), ReprPairs(_)
ReprOkAll(vs) == vs = <<>> \/ (ReprOk(Head(vs)) /\ ReprOkAll(Tail(vs)))
ReprOk(v) ==
    CASE v.t = "obj" -> v.canstr
      [] v.t \in {"list", "tuple"} -> ReprOkAll(v.items)
      [] v.t = "dict" ->
            \A i \in 1..Len(v.pairs) : ReprOk(v.pairs[i].key) /\ ReprOk(v.pairs[i].val)
      [] OTHER -> TRUE
ReprJoin(vs) ==
    IF vs = <<>> THEN ""
    ELSE IF Len(vs) = 1 THEN Repr(Head(vs))
    ELSE Repr(Head(vs)) \o ", " \o ReprJoin(Tail(vs))
ReprPairs(ps) ==
    IF ps = <<>> THEN ""
    ELSE LET one == Repr(Head(ps).key) \o ": " \o Repr(Head(ps).val)
         IN  IF Len(ps) = 1 THEN one ELSE one \o ", " \o ReprPairs(Tail(ps))
Repr(v) ==
    CASE v.t = "none" -> "None"
      [] v.t = "bool" -> IF v.b THEN "True" ELSE "False"
      [] v.t = "int" -> ToString(v.n)
      [] v.t = "float" -> v.r
      [] v.t = "str" -> "'" \o v.s \o "'"
      [] v.t = "list" -> "[" \o ReprJoin(v.items) \o "]"
      [] v.t = "tuple" ->
            IF Len(v.items) = 1 THEN "(" \o Repr(v.items[1]) \o ",)"
            ELSE "(" \o ReprJoin(v.items) \o ")"
      [] v.t = "dict" -> "{" \o ReprPairs(v.pairs) \o "}"
      [] v.t = "obj" -> v.text

StrOk(v) == ReprOk(v)
Str(v) == IF v.t = "str" THEN v.s ELSE Repr(v)

TypeOk(v) == v.t # "obj" \/ v.cantype
TypeName(v) ==
    CASE v.t = "none" -> "<type 'NoneType'>"
      [] v.t = "bool" -> "<type 'bool'>"
      [] v.t = "int" -> "<type 'int'>"
      [] v.t = "float" -> "<type 'float'>"
      [] v.t = "str" -> "<type 'str'>"
      [] v.t = "list" -> "<type 'list'>"
      [] v.t = "tuple" -> "<type 'tuple'>"
      [] v.t = "dict" -> "<type 'dict'>"
      [] v.t = "obj" -> "<class 'Thing'>"

(***************************************************************************)
(* json.dumps: a value to JSON text, held as its tokens.                   *)
(***************************************************************************)
Tok(k) == [tok |-> k]
TokInt(n) == [tok |-> "int", n |-> n]
TokFloat(r) == [tok |-> "float", r |-> r]
TokStr(s, lone) == [tok |-> "str", s |-> s, lone |-> lone]

RECURSIVE Dumpable(_), DumpToks(_), DumpItems(_), DumpPairs(_)
KeyDumpable(k) == k.t \in {"str", "int", "float", "bool", "none"}
Dumpable(v) ==
    CASE v.t \in {"none", "bool", "int", "float", "str"} -> TRUE
      [] v.t \in {"list", "tuple"} -> \A i \in 1..Len(v.items) : Dumpable(v.items[i])
      [] v.t = "dict" ->
            \A i \in 1..Len(v.pairs) :
                KeyDumpable(v.pairs[i].key) /\ Dumpable(v.pairs[i].val)
      [] OTHER -> FALSE
\* a key that is not text is written as the text of its JSON form
KeyTok(k) ==
    CASE k.t = "str" -> TokStr(k.s, k.lone)
      [] k.t = "int" -> TokStr(ToString(k.n), FALSE)
      [] k.t = "float" -> TokStr(k.r, FALSE)
      [] k.t = "bool" -> TokStr(IF k.b THEN "true" ELSE "false", FALSE)
      [] k.t = "none" -> TokStr("null", FALSE)
DumpItems(vs) ==
    IF vs = <<>> THEN <<>>
    ELSE IF Len(vs) = 1 THEN DumpToks(Head(vs))
    ELSE DumpToks(Head(vs)) \o <<Tok(",")>> \o DumpItems(Tail(vs))
DumpPairs(ps) ==
    IF ps = <<>> THEN <<>>
    ELSE LET one == <<KeyTok(Head(ps).key), Tok(":")>> \o DumpToks(Head(ps).val)
         IN  IF Len(ps) = 1 THEN one ELSE one \o <<Tok(",")>> \o DumpPairs(Tail(ps))
DumpToks(v) ==
    CASE v.t = "none" -> <<Tok("null")>>
      [] v.t = "bool" -> <<Tok(IF v.b THEN "true" ELSE "false")>>
      [] v.t = "int" -> <<TokInt(v.n)>>
      [] v.t = "float" -> <<TokFloat(v.r)>>
      [] v.t = "str" -> <<TokStr(v.s, v.lone)>>
      [] v.t \in {"list", "tuple"} -> <<Tok("[")>> \o DumpItems(v.items) \o <<Tok("]")>>
      [] v.t = "dict" -> <<Tok("{")>> \o DumpPairs(v.pairs) \o <<Tok("}")>>

\* json.dumps(v): ok is FALSE where it raises TypeError
json_dumps(v) ==
    IF Dumpable(v) THEN [ok |-> TRUE, toks |-> DumpToks(v)]
    ELSE [ok |-> FALSE, toks |-> <<>>]

\* the characters of the JSON text, with the default ", " and ": " separators
RECURSIVE JsonText(_)
TokText(k) ==
    CASE k.tok = "int" -> ToString(k.n)
      [] k.tok = "float" -> k.r
      [] k.tok = "str" -> "\"" \o k.s \o "\""
      [] k.tok = "," -> ", "
      [] k.tok = ":" -> ": "
      [] OTHER -> k.tok
JsonText(toks) == IF toks = <<>> THEN "" ELSE TokText(Head(toks)) \o JsonText(Tail(toks))

(***************************************************************************)
(* json.loads: JSON text to a value; arrays decode to lists, object keys   *)
(* to text.  ok is FALSE where it raises ValueError.                       *)
(***************************************************************************)
ParseFail == [ok |-> FALSE, val |-> PyNone, rest |-> <<>>]
Parsed(v, rest) == [ok |-> TRUE, val |-> v, rest |-> rest]
RECURSIVE ParseValue(_), ParseItems(_, _), ParseMembers(_, _)
ParseValue(toks) ==
    IF toks = <<>> THEN ParseFail
    ELSE LET h == Head(toks)
             r == Tail(toks)
         IN  CASE h.tok = "null" -> Parsed(PyNone, r)
               [] h.tok = "true" -> Parsed(PyBool(TRUE), r)
               [] h.tok = "false" -> Parsed(PyBool(FALSE), r)
               [] h.tok = "int" -> Parsed(PyInt(h.n), r)
               [] h.tok = "float" -> Parsed(PyFloat(h.r), r)
               [] h.tok = "str" -> IF h.lone THEN ParseFail ELSE Parsed(PyStr(h.s), r)
               [] h.tok = "[" ->
                     IF r # <<>> /\ Head(r).tok = "]" THEN Parsed(PyList(<<>>), Tail(r))
                     ELSE ParseItems(r, <<>>)
               [] h.tok = "{" ->
                     IF r # <<>> /\ Head(r).tok = "}" THEN Parsed(PyDict(<<>>), Tail(r))
                     ELSE ParseMembers(r, <<>>)
               [] OTHER -> ParseFail
ParseItems(toks, acc) ==
    LET e == ParseValue(toks)
    IN  IF ~e.ok \/ e.rest = <<>> THEN ParseFail
        ELSE IF Head(e.rest).tok = "]"
             THEN Parsed(PyList(Append(acc, e.val)), Tail(e.rest))
        ELSE IF Head(e.rest).tok = ","
             THEN ParseItems(Tail(e.rest), Append(acc, e.val))
        ELSE ParseFail
ParseMembers(toks, acc) ==
    IF Len(toks) < 3 \/ toks[1].tok # "str" \/ toks[2].tok # ":" THEN ParseFail
    ELSE IF toks[1].lone THEN ParseFail
    ELSE LET e == ParseValue(Tail(Tail(toks)))
             p == Pair(PyStr(toks[1].s), e.val)
         IN  IF ~e.ok \/ e.rest = <<>> THEN ParseFail
             ELSE IF Head(e.rest).tok = "}"
                  THEN Parsed(PyDict(Append(acc, p)), Tail(e.rest))
             ELSE IF Head(e.rest).tok = ","
                  THEN ParseMembers(Tail(e.rest), Append(acc, p))
             ELSE ParseFail

json_loads(toks) ==
    LET p == ParseValue(toks)
    IN  IF p.ok /\ p.rest = <<>> THEN [ok |-> TRUE, val |-> p.val]
        ELSE [ok |-> FALSE, val |-> PyNone]

(***************************************************************************)
(* Namespaces: a Python dict whose keys are names, as a function.          *)
(***************************************************************************)
LoneName == "k_lone"
NameOrder == <<"__builtins__", "a", "x", LoneName>>
Names == {NameOrder[i] : i \in 1..Len(NameOrder)}
EmptyNs == [n \in {} |-> PyNone]
PyKey(n) == IF n = LoneName THEN PyLoneStr(n) ELSE PyStr(n)

RECURSIVE NsPairs(_, _)
NsPairs(d, order) ==
    IF order = <<>> THEN <<>>
    ELSE IF Head(order) \in DOMAIN d
         THEN <<Pair(PyKey(Head(order)), d[Head(order)])>> \o NsPairs(d, Tail(order))
    ELSE NsPairs(d, Tail(order))
NsToPy(d) == PyDict(NsPairs(d, NameOrder))
PyToNs(v) ==
    IF v.t # "dict" THEN EmptyNs
    ELSE
    [n \in {v.pairs[i].key.s : i \in 1..Len(v.pairs)} |->
        (CHOOSE p \in {v.pairs[i] : i \in 1..Len(v.pairs)} : p.key.s = n).val]

(***************************************************************************)
(* json_safe (safe_exec.py, lines 216-245)                                 *)
(***************************************************************************)
ok_types == {"none", "bool", "int", "float", "str", "list", "tuple", "dict"}
bad_keys == {"__builtins__"}

\* json.loads(json.dumps(x)) raises neither TypeError nor ValueError
EncodesAndDecodes(x) == json_dumps(x).ok /\ json_loads(json_dumps(x).toks).ok

\* json_safe_keeps with the decoding checks left out
json_safe_keeps_no_decode(k, v) ==
    /\ v.t \in ok_types
    /\ k \notin bad_keys
    /\ json_dumps(v).ok
    /\ json_dumps(PyKey(k)).ok

json_safe_keeps(k, v) ==
    /\ v.t \in ok_types
    /\ k \notin bad_keys
    /\ EncodesAndDecodes(v)
    /\ EncodesAndDecodes(PyKey(k))

\* ok is FALSE where the closing json.loads(json.dumps(jd)) raises
json_safe(d) ==
    LET jd == [k \in {n \in DOMAIN d : json_safe_keeps(n, d[n])} |-> d[k]]
        out == json_loads(json_dumps(NsToPy(jd)).toks)
    IN  [ok |-> out.ok, ns |-> PyToNs(out.val)]

(***************************************************************************)
(* The reduction the generated program runs on the far side               *)
(* (safe_exec.py, lines 106-178).                                          *)
(***************************************************************************)
MaxJsonLen == 100
MaxStrLen == 100

pickleable(v) == v.t # "obj" \/ v.canpickle
p_dict(g) == [k \in {n \in DOMAIN g : pickleable(g[n]) /\ n \notin bad_keys} |-> g[k]]

jsonable(v) == json_dumps(v).ok /\ ~(Len(JsonText(json_dumps(v).toks)) > MaxJsonLen)
\* stringable with the upper comparison off by one
stringable_le(v) == StrOk(v) /\ Len(Str(v)) > 0 /\ Len(Str(v)) <= MaxStrLen
stringable(v) == StrOk(v) /\ Len(Str(v)) > 0 /\ Len(Str(v)) < MaxStrLen
typeable(v) == TypeOk(v)
jsonable_nolength(v) == json_dumps(v).ok
stringable_nolength(v) == StrOk(v)

\* v_dict_has without the bad_keys test
v_dict_has_any(k, v) == jsonable(v) \/ stringable(v) \/ typeable(v)
v_dict_has(k, v) == k \notin bad_keys /\ (jsonable(v) \/ stringable(v) \/ typeable(v))
v_dict_value(v) ==
    IF jsonable(v) THEN v
    ELSE IF stringable(v) THEN PyStr(Str(v))
    ELSE PyStr(TypeName(v))
v_dict(g) == [k \in {n \in DOMAIN g : v_dict_has(n, g[n])} |-> v_dict_value(g[k])]

real_vars_has(k, v) ==
    k \notin bad_keys /\ (jsonable_nolength(v) \/ stringable_nolength(v) \/ typeable(v))
real_vars_value(v) ==
    IF jsonable_nolength(v) THEN v
    ELSE IF stringable_nolength(v) THEN PyStr(Str(v))
    ELSE PyStr(TypeName(v))
real_vars(g) == [k \in {n \in DOMAIN g : real_vars_has(n, g[n])} |-> real_vars_value(g[k])]


(***************************************************************************)
(* The process: its strategy, its working directory, its module search     *)
(* path (a name bound to a list object of the heap), the directories that  *)
(* exist, the files written, the warnings logged; and per call of execute  *)
(* its position, arguments, locals, runner result and outcome.             *)
(***************************************************************************)
VARIABLES UNSAFE, cwd, dirs, sys_path, heap, written, log,
          pc, req, loc, runner_calls, res, ret, overlapped,
          cd_op, cd_ns, cd_out

procvars == <<UNSAFE, cwd, dirs, sys_path, heap, written, log,
              pc, req, loc, runner_calls, res, ret, overlapped>>
codecvars == <<cd_op, cd_ns, cd_out>>
vars == <<procvars, codecvars>>

NCalls == 2
CallIds == 1..NCalls
MaxEntries == 2

HomeDir == "/home/app"
TmpDir(c) == "/tmp/codejail-" \o ToString(c)
PathList == 1
InitialPath == <<"/usr/lib/python2.7">>

\* file names: os.path.basename and os.path.join work on the parts
Path(abs, parts) == [abs |-> abs, parts |-> parts]
basename(p) == p.parts[Len(p.parts)]
join(dir, p) == IF p.abs THEN [dir |-> "/", parts |-> p.parts]
                ELSE [dir |-> dir, parts |-> p.parts]
HasSeparator(p) == p.abs \/ Len(p.parts) > 1
ExistingFiles == {Path(TRUE, <<"srv", "helper.py">>), Path(TRUE, <<"srv", "pkg">>)}
\* open(dest, "w") fails when dest names a directory that does not exist
CanOpen(p) == p.abs \/ Len(p.parts) = 1 \/ (Len(p.parts) = 2 /\ p.parts[1] = "..")

NoSlug == "None"
NoExc == [exc |-> "none", msg |-> ""]
Exc(e, m) == [exc |-> e, msg |-> m]

(***************************************************************************)
(* The foreign code, by what running it does: the names it binds, what it  *)
(* writes to sys.stdout, how it ends, and whether it rebinds sys.stdout.   *)
(***************************************************************************)
Code(op, name, val) == [op |-> op, name |-> name, val |-> val]
Sentinel == Tok("PICKLE_DATA:\n")
Text(s) == [tok |-> "text", s |-> s]
Pickled(ns) == [tok |-> "pickle", ns |-> ns]
BuiltinsObj == PyObj("<module '__builtin__' (built-in)>", TRUE, TRUE, FALSE)
ForgedNs == [n \in {"__builtins__"} |-> PyInt(1)]
Forged == <<Sentinel, Pickled(EmptyNs), Sentinel>> \o json_dumps(NsToPy(ForgedNs)).toks
              \o <<Sentinel>> \o json_dumps(NsToPy(ForgedNs)).toks

Bind(g, name, val) == [n \in DOMAIN g \cup {name} |-> IF n = name THEN val ELSE g[n]]
\* exec binds __builtins__ in the globals it is given when they lack it
WithBuiltins(g) ==
    IF "__builtins__" \in DOMAIN g THEN g ELSE Bind(g, "__builtins__", BuiltinsObj)
Effect(ns, out, how, redirected) ==
    [ns |-> ns, out |-> out, how |-> how, redirected |-> redirected]
exec(code, g) ==
    CASE code.op = "assign" ->
            Effect(Bind(WithBuiltins(g), code.name, code.val), <<>>, "ok", FALSE)
      [] code.op = "write" -> Effect(WithBuiltins(g), <<Text("hello\n")>>, "ok", FALSE)
      [] code.op = "write_sentinel" -> Effect(WithBuiltins(g), <<Sentinel>>, "ok", FALSE)
      [] code.op = "redirect" -> Effect(WithBuiltins(g), <<>>, "ok", TRUE)
      [] code.op = "raise" -> Effect(WithBuiltins(g), <<>>, "raise", FALSE)
      [] code.op = "exit" -> Effect(WithBuiltins(g), <<>>, "exit", FALSE)
      [] code.op = "forge" -> Effect(WithBuiltins(g), Forged, "exit", FALSE)
RaisedMsg == "ValueError: boom"

(***************************************************************************)
(* The program safe_exec generates (lines 77-189), run on (code, g_dict):  *)
(* the status, stdout and stderr of the far-side process.                  *)
(***************************************************************************)
Result(status, stdout, stderr) == [status |-> status, stdout |-> stdout, stderr |-> stderr]
jailed_code(code, g) ==
    LET e == exec(code, g)
        mark == IF e.redirected THEN <<>> ELSE <<Sentinel>>
    IN  CASE e.how = "raise" ->
                Result(1, e.out, "Traceback (most recent call last): " \o RaisedMsg)
          [] e.how = "exit" -> Result(0, e.out, "")
          [] OTHER ->
                Result(0,
                       e.out \o mark \o <<Pickled(p_dict(e.ns))>>
                             \o mark \o json_dumps(NsToPy(v_dict(e.ns))).toks
                             \o mark \o json_dumps(NsToPy(real_vars(e.ns))).toks,
                       "")

\* jail_code.jail_code: the far-side process runs to its end, or the runner
\* kills it at a limit
jail_code(code, g) ==
    {jailed_code(code, g), Result(-9, <<>>, "Killed"),
     Result(-9, jailed_code(code, g).stdout, "Killed")}

(***************************************************************************)
(* safe_exec, isolated (lines 69-213)                                      *)
(***************************************************************************)
RECURSIVE split(_, _)
\* str.split(sep): the segments between the occurrences of sep
split(toks, sep) ==
    IF toks = <<>> THEN << <<>> >>
    ELSE LET rest == split(Tail(toks), sep)
         IN  IF Head(toks) = sep THEN << <<>> >> \o rest
             ELSE << <<Head(toks)>> \o Head(rest) >> \o Tail(rest)

Record(output, data, display_vars, real) ==
    [output |-> output, data |-> data, display_vars |-> display_vars, real_vars |-> real]
NoRecord == Record(<<>>, <<>>, PyNone, PyNone)
Returned(r) == [kind |-> "record", record |-> r, exc |-> "none", msg |-> ""]
ReturnedNone == [kind |-> "None", record |-> NoRecord, exc |-> "none", msg |-> ""]
Raised(e) == [kind |-> "raised", record |-> NoRecord, exc |-> e.exc, msg |-> e.msg]
Pending == [kind |-> "pending", record |-> NoRecord, exc |-> "none", msg |-> ""]

\* unpack splitting from the right, at most three times
RECURSIVE glue(_, _)
glue(segs, sep) ==
    IF Len(segs) = 1 THEN Head(segs) ELSE Head(segs) \o <<sep>> \o glue(Tail(segs), sep)
unpack_rsplit(output) ==
    LET all == split(output, Sentinel)
        n == Len(all)
        segs == IF n < 4 THEN all
                ELSE <<glue(SubSeq(all, 1, n - 3), Sentinel)>> \o SubSeq(all, n - 2, n)
    IN  IF Len(segs) # 4 THEN Raised(Exc("ValueError", "wrong number of values to unpack"))
        ELSE LET display_vars == json_loads(segs[3])
                 real == json_loads(segs[4])
             IN  IF ~display_vars.ok \/ ~real.ok
                 THEN Raised(Exc("ValueError", "No JSON object could be decoded"))
                 ELSE Returned(Record(segs[1], segs[2], display_vars.val, real.val))

\* lines 208-213
unpack(output) ==
    LET segs == split(output, Sentinel)
    IN  IF Len(segs) # 4 THEN Raised(Exc("ValueError", "wrong number of values to unpack"))
        ELSE LET display_vars == json_loads(segs[3])
                 real == json_loads(segs[4])
             IN  IF ~display_vars.ok \/ ~real.ok
                 THEN Raised(Exc("ValueError", "No JSON object could be decoded"))
                 ELSE Returned(Record(segs[1], segs[2], display_vars.val, real.val))

\* safe_exec_result testing the status for a positive value only
safe_exec_result_positive(r) ==
    IF r.status > 0
    THEN Raised(Exc("SafeExecException", "Couldn't execute jailed code: " \o r.stderr))
    ELSE unpack(r.stdout)

\* lines 204-213
safe_exec_result(r) ==
    IF r.status # 0
    THEN Raised(Exc("SafeExecException", "Couldn't execute jailed code: " \o r.stderr))
    ELSE unpack(r.stdout)

\* line 191: pickle.dumps([code, globals_dict]) raises on a value it cannot pickle
stdin_ok(g) == \A n \in DOMAIN g : pickleable(g[n])

(***************************************************************************)
(* Requests                                                                *)
(***************************************************************************)
Request(code, g, files, python_path, slug, slug_by, extra_files) ==
    [code |-> code, globals_dict |-> g, files |-> files, python_path |-> python_path,
     slug |-> slug, slug_by |-> slug_by, extra_files |-> extra_files]
Extra(name, contents) == [name |-> name, contents |-> contents]
NoRequest == Request(Code("assign", "x", PyInt(2)), EmptyNs, <<>>, <<>>, NoSlug, "none", <<>>)
extra_names(r) == {r.extra_files[i].name : i \in 1..Len(r.extra_files)}

Wide == PyObj(Rep("w", MaxStrLen), TRUE, TRUE, TRUE)
Codes ==
    {Code("assign", "x", PyInt(2)), Code("assign", "a", Wide),
     Code("assign", "a", PyTuple(<<PyInt(1), PyInt(2)>>)),
     Code("write", "", PyNone), Code("write_sentinel", "", PyNone),
     Code("redirect", "", PyNone), Code("raise", "", PyNone),
     Code("exit", "", PyNone), Code("forge", "", PyNone)}
Globals ==
    {EmptyNs, [n \in {"a"} |-> PyTuple(<<PyInt(1)>>)],
     [n \in {"__builtins__", "a"} |-> IF n = "a" THEN PyInt(7) ELSE PyStr("mine")],
     [n \in {"a"} |-> PyObj("thing", TRUE, TRUE, FALSE)]}
FileLists == {<<>>, <<Path(TRUE, <<"srv", "helper.py">>)>>, <<Path(TRUE, <<"srv", "missing.py">>)>>}
PythonPaths == {<<>>, <<Path(TRUE, <<"srv", "pkg">>)>>}
ExtraFileLists ==
    {<<>>, <<Extra(Path(FALSE, <<"data.txt">>), "hello")>>,
     <<Extra(Path(FALSE, <<"sub", "data.txt">>), "hello")>>,
     <<Extra(Path(FALSE, <<"..", "data.txt">>), "hello")>>}
Slugs == {<<NoSlug, "none">>, <<"job-1", "keyword">>, <<"job-1", "position">>}
Requests ==
    {Request(c, g, f, pp, sl[1], sl[2], x) :
        c \in Codes, g \in Globals, f \in FileLists, pp \in PythonPaths,
        sl \in Slugs, x \in ExtraFileLists}
ConcRequests ==
    {Request(c, EmptyNs, <<>>, pp, NoSlug, "none", <<>>) :
        c \in {Code("assign", "x", PyInt(2)), Code("raise", "", PyNone)},
        pp \in PythonPaths}

(***************************************************************************)
(* The strategy switch (lines 289-303) and the two executors               *)
(***************************************************************************)
ALWAYS_BE_UNSAFE == FALSE

Frame == [g_dict |-> EmptyNs, tmpdir |-> "", old |-> "", original_path |-> PathList,
          exc |-> NoExc, ran_in |-> ""]

\* safe_exec as first defined (lines 36-213), one call from start to end
safe_exec(c, R) ==
    /\ ~UNSAFE
    /\ pc[c] = "idle"
    /\ \E r \in R :
        /\ req' = [req EXCEPT ![c] = r]
        /\ IF ~stdin_ok(r.globals_dict)
           THEN /\ ret' = [ret EXCEPT ![c] = Raised(Exc("PicklingError", "can't pickle"))]
                /\ UNCHANGED <<res, runner_calls>>
           ELSE \E out \in jail_code(r.code, r.globals_dict) :
                /\ res' = [res EXCEPT ![c] = out]
                /\ runner_calls' = [runner_calls EXCEPT ![c] = @ + 1]
                /\ ret' = [ret EXCEPT ![c] = safe_exec_result(out)]
    /\ pc' = [pc EXCEPT ![c] = "done"]
    /\ overlapped' = (overlapped \/ \E o \in CallIds \ {c} : pc[o] \notin {"idle", "done"})
    /\ UNCHANGED <<UNSAFE, cwd, dirs, sys_path, heap, written, log, loc, codecvars>>

\* line 300: kwargs.get('slug', None)
kwargs_get_slug(r) == IF r.slug_by = "keyword" THEN r.slug ELSE NoSlug
Warning(slug) == "Using codejail/safe_exec.py:not_safe_exec for " \o slug

\* the wrapper (lines 294-303) up to its call of not_safe_exec, and the
\* first statement of not_safe_exec (line 259)
unsafe_safe_exec(c, R) ==
    /\ UNSAFE
    /\ pc[c] = "idle"
    /\ \E r \in R :
        /\ req' = [req EXCEPT ![c] = r]
        /\ log' = Append(log, Warning(kwargs_get_slug(r)))
        /\ LET g == json_safe(r.globals_dict)
           IN  loc' = [loc EXCEPT ![c] = [Frame EXCEPT !.g_dict = g.ns]]
    /\ pc' = [pc EXCEPT ![c] = "tempdir"]
    /\ overlapped' = (overlapped \/ \E o \in CallIds \ {c} : pc[o] \notin {"idle", "done"})
    /\ UNCHANGED <<UNSAFE, cwd, dirs, sys_path, heap, written, runner_calls, res, ret,
                   codecvars>>

\* line 261, entering: tempfile.mkdtemp
temp_directory_enter(c) ==
    /\ pc[c] = "tempdir"
    /\ loc' = [loc EXCEPT ![c].tmpdir = TmpDir(c)]
    /\ dirs' = dirs \cup {TmpDir(c)}
    /\ pc' = [pc EXCEPT ![c] = "chdir"]
    /\ UNCHANGED <<UNSAFE, cwd, sys_path, heap, written, log, req, runner_calls, res, ret,
                   overlapped, codecvars>>

\* change_directory_enter without the os.chdir(tmpdir)
change_directory_enter_skip(c) ==
    /\ pc[c] = "chdir"
    /\ loc' = [loc EXCEPT ![c].old = cwd]
    /\ pc' = [pc EXCEPT ![c] = "files"]
    /\ UNCHANGED <<UNSAFE, cwd, dirs, sys_path, heap, written, log, req, runner_calls, res,
                   ret, overlapped, codecvars>>

\* line 262, entering: old = os.getcwd(); os.chdir(tmpdir)
change_directory_enter(c) ==
    /\ pc[c] = "chdir"
    /\ IF cwd \in dirs
       THEN /\ loc' = [loc EXCEPT ![c].old = cwd]
            /\ cwd' = loc[c].tmpdir
            /\ pc' = [pc EXCEPT ![c] = "files"]
       ELSE \* os.getcwd() fails in a directory that was removed
            /\ loc' = [loc EXCEPT ![c].exc = Exc("OSError", "No such file or directory")]
            /\ pc' = [pc EXCEPT ![c] = "rmtree"]
            /\ UNCHANGED cwd
    /\ UNCHANGED <<UNSAFE, dirs, sys_path, heap, written, log, req, runner_calls, res, ret,
                   overlapped, codecvars>>

\* lines 264-270: the destinations written until the first failure
RECURSIVE copied(_, _), extras_written(_, _)
copied(files, tmpdir) ==
    IF files = <<>> \/ Head(files) \notin ExistingFiles THEN {}
    ELSE {[dir |-> tmpdir, parts |-> <<basename(Head(files))>>]} \cup copied(Tail(files), tmpdir)
extras_written(extras, tmpdir) ==
    IF extras = <<>> \/ ~CanOpen(Head(extras).name) THEN {}
    ELSE {join(tmpdir, Head(extras).name)} \cup extras_written(Tail(extras), tmpdir)
copy_fails(r) == \E i \in 1..Len(r.files) : r.files[i] \notin ExistingFiles
write_fails(r) == \E i \in 1..Len(r.extra_files) : ~CanOpen(r.extra_files[i].name)

copy_files(c) ==
    /\ pc[c] = "files"
    /\ LET r == req[c]
           t == loc[c].tmpdir
       IN  IF copy_fails(r)
           THEN /\ written' = written \cup copied(r.files, t)
                /\ loc' = [loc EXCEPT ![c].exc = Exc("IOError", "No such file or directory")]
                /\ pc' = [pc EXCEPT ![c] = "restore"]
           ELSE IF write_fails(r)
           THEN /\ written' = written \cup copied(r.files, t) \cup extras_written(r.extra_files, t)
                /\ loc' = [loc EXCEPT ![c].exc = Exc("IOError", "No such file or directory")]
                /\ pc' = [pc EXCEPT ![c] = "restore"]
           ELSE /\ written' = written \cup copied(r.files, t) \cup extras_written(r.extra_files, t)
                /\ pc' = [pc EXCEPT ![c] = "path"]
                /\ UNCHANGED loc
    /\ UNCHANGED <<UNSAFE, cwd, dirs, sys_path, heap, log, req, runner_calls, res, ret,
                   overlapped, codecvars>>

RECURSIVE PartsText(_)
PartsText(parts) ==
    IF Len(parts) = 1 THEN Head(parts) ELSE Head(parts) \o "/" \o PartsText(Tail(parts))
PathText(p) == (IF p.abs THEN "/" ELSE "") \o PartsText(p.parts)
RECURSIVE PathTexts(_)
PathTexts(ps) == IF ps = <<>> THEN <<>> ELSE <<PathText(Head(ps))>> \o PathTexts(Tail(ps))

\* lines 272-274: original_path names the list sys.path names; extend changes that list
extend_path(c) ==
    /\ pc[c] = "path"
    /\ loc' = [loc EXCEPT ![c].original_path = sys_path]
    /\ heap' = IF req[c].python_path # <<>>
               THEN [heap EXCEPT ![sys_path] = @ \o PathTexts(req[c].python_path)]
               ELSE heap
    /\ pc' = [pc EXCEPT ![c] = "exec"]
    /\ UNCHANGED <<UNSAFE, cwd, dirs, sys_path, written, log, req, runner_calls, res, ret,
                   overlapped, codecvars>>

\* lines 275-282
exec_code(c) ==
    /\ pc[c] = "exec"
    /\ LET e == exec(req[c].code, loc[c].g_dict)
           x == CASE e.how = "raise" -> Exc("SafeExecException", RaisedMsg)
                  [] e.how = "exit" -> Exc("SystemExit", "0")
                  [] OTHER -> NoExc
       IN  loc' = [loc EXCEPT ![c].g_dict = e.ns, ![c].exc = x, ![c].ran_in = cwd]
    /\ pc' = [pc EXCEPT ![c] = "finally"]
    /\ UNCHANGED <<UNSAFE, cwd, dirs, sys_path, heap, written, log, req, runner_calls, res, ret,
                   overlapped, codecvars>>

\* lines 283-284
restore_path(c) ==
    /\ pc[c] = "finally"
    /\ sys_path' = loc[c].original_path
    /\ pc' = [pc EXCEPT ![c] = "restore"]
    /\ UNCHANGED <<UNSAFE, cwd, dirs, heap, written, log, req, loc, runner_calls, res, ret,
                   overlapped, codecvars>>

\* line 262, leaving: os.chdir(old)
change_directory_exit(c) ==
    /\ pc[c] = "restore"
    /\ IF loc[c].old \in dirs
       THEN cwd' = loc[c].old /\ UNCHANGED loc
       ELSE /\ loc' = [loc EXCEPT ![c].exc = Exc("OSError", "No such file or directory")]
            /\ UNCHANGED cwd
    /\ pc' = [pc EXCEPT ![c] = "rmtree"]
    /\ UNCHANGED <<UNSAFE, dirs, sys_path, heap, written, log, req, runner_calls, res, ret,
                   overlapped, codecvars>>

\* line 261, leaving: shutil.rmtree(tmpdir); then the call returns or raises
temp_directory_exit(c) ==
    /\ pc[c] = "rmtree"
    /\ dirs' = dirs \ {loc[c].tmpdir}
    /\ written' = {w \in written : w.dir # loc[c].tmpdir \/ w.parts[1] = ".."}
    /\ ret' = [ret EXCEPT ![c] = IF loc[c].exc = NoExc THEN ReturnedNone ELSE Raised(loc[c].exc)]
    /\ pc' = [pc EXCEPT ![c] = "done"]
    /\ UNCHANGED <<UNSAFE, cwd, sys_path, heap, log, req, loc, runner_calls, res,
                   overlapped, codecvars>>

\* not_safe_exec without the os.chdir into the scratch directory
not_safe_exec_without_chdir(c) ==
    \/ temp_directory_enter(c)
    \/ change_directory_enter_skip(c)
    \/ copy_files(c)
    \/ extend_path(c)
    \/ exec_code(c)
    \/ restore_path(c)
    \/ change_directory_exit(c)
    \/ temp_directory_exit(c)

not_safe_exec(c) ==
    \/ temp_directory_enter(c)
    \/ change_directory_enter(c)
    \/ copy_files(c)
    \/ extend_path(c)
    \/ exec_code(c)
    \/ restore_path(c)
    \/ change_directory_exit(c)
    \/ temp_directory_exit(c)

NoOut == [ok |-> TRUE, display |-> EmptyNs, full |-> EmptyNs, safe |-> EmptyNs]
IdleCodec == cd_op = "none" /\ cd_ns = EmptyNs /\ cd_out = NoOut

InitProc(unsafe) ==
    /\ UNSAFE = unsafe
    /\ cwd = HomeDir
    /\ dirs = {HomeDir}
    /\ sys_path = PathList
    /\ heap = [o \in {PathList} |-> InitialPath]
    /\ written = {}
    /\ log = <<>>
    /\ pc = [c \in CallIds |-> "idle"]
    /\ req = [c \in CallIds |-> NoRequest]
    /\ loc = [c \in CallIds |-> Frame]
    /\ runner_calls = [c \in CallIds |-> 0]
    /\ res = [c \in CallIds |-> Result(0, <<>>, "")]
    /\ ret = [c \in CallIds |-> Pending]
    /\ overlapped = FALSE

\* one call of execute in a process whose strategy was chosen at its start
Init ==
    /\ \E configured \in BOOLEAN : InitProc(ALWAYS_BE_UNSAFE \/ ~configured)
    /\ IdleCodec
Next ==
    \/ safe_exec(1, Requests)
    \/ unsafe_safe_exec(1, Requests)
    \/ not_safe_exec(1)
Spec == Init /\ [][Next]_vars

(***************************************************************************)
(* Concurrent calls of the in-process executor in one process              *)
(***************************************************************************)
InitConc == InitProc(TRUE) /\ IdleCodec
NextConc == \E c \in CallIds : unsafe_safe_exec(c, ConcRequests) \/ not_safe_exec(c)
SpecConc == InitConc /\ [][NextConc]_vars

(***************************************************************************)
(* The two codecs as functions of a namespace                              *)
(***************************************************************************)
CodecValues ==
    {PyNone, PyBool(TRUE), PyInt(2), PyFloat("1.5"), PyStr("hello"),
     PyStr(Rep("s", MaxJsonLen - 2)), PyStr(Rep("s", MaxStrLen - 1)),
     PyStr(Rep("s", MaxStrLen)), PyLoneStr("?"),
     PyList(<<PyInt(1), PyStr("b")>>), PyTuple(<<PyInt(1), PyInt(2)>>),
     PyDict(<<Pair(PyInt(1), PyStr("v"))>>),
     PyDict(<<Pair(PyStr("k"), PyTuple(<<PyInt(1)>>))>>),
     PyList(<<PyStr(Rep("s", 48)), PyStr(Rep("s", 48))>>),
     PyObj("", TRUE, TRUE, TRUE), PyObj(Rep("w", MaxStrLen - 1), TRUE, TRUE, TRUE),
     Wide, PyObj(Rep("w", MaxStrLen + 1), TRUE, TRUE, FALSE),
     PyObj("", FALSE, TRUE, TRUE), PyObj("", FALSE, FALSE, FALSE), BuiltinsObj}
CodecNames == {"__builtins__", "a", LoneName}
Namespaces ==
    UNION {[S -> CodecValues] : S \in {T \in SUBSET CodecNames : Cardinality(T) <= MaxEntries}}

\* lines 158-187 on the far side, then lines 210-211 on the caller's
reduce(g) ==
    LET display_vars == json_loads(json_dumps(NsToPy(v_dict(g))).toks)
        real == json_loads(json_dumps(NsToPy(real_vars(g))).toks)
    IN  [ok |-> display_vars.ok /\ real.ok, display |-> PyToNs(display_vars.val),
         full |-> PyToNs(real.val), safe |-> EmptyNs]

apply_json_safe ==
    /\ cd_op = "none"
    /\ cd_op' = "json_safe"
    /\ cd_out' = [NoOut EXCEPT !.ok = json_safe(cd_ns).ok, !.safe = json_safe(cd_ns).ns]
    /\ UNCHANGED <<cd_ns, procvars>>

apply_reduce ==
    /\ cd_op = "none"
    /\ cd_op' = "reduce"
    /\ cd_out' = reduce(cd_ns)
    /\ UNCHANGED <<cd_ns, procvars>>

InitCodec ==
    /\ InitProc(FALSE)
    /\ cd_op = "none"
    /\ cd_ns \in Namespaces
    /\ cd_out = NoOut
NextCodec == apply_json_safe \/ apply_reduce
SpecCodec == InitCodec /\ [][NextCodec]_vars

(***************************************************************************)
(* Properties                                                              *)
(***************************************************************************)
Started(c) == pc[c] # "idle"
Done(c) == pc[c] = "done"
Isolated(c) == ~UNSAFE /\ Done(c)
DictKeys(v) == IF v.t = "dict" THEN {v.pairs[i].key.s : i \in 1..Len(v.pairs)} ELSE {}
DictGet(v, n) == (CHOOSE p \in {v.pairs[i] : i \in 1..Len(v.pairs)} : p.key.s = n).val
Sentinels(toks) == Cardinality({i \in 1..Len(toks) : toks[i] = Sentinel})
BadExtraName(r) == \E n \in extra_names(r) : HasSeparator(n)

\* C1: a request with an inline file name that contains a path separator is
\* rejected with an error before the runner is invoked: the runner is invoked
\* zero times for it and no file is written.
C1_RejectedBeforeInvocation ==
    \A c \in CallIds :
        (Started(c) /\ BadExtraName(req[c])) =>
            /\ runner_calls[c] = 0
            /\ written = {}
            /\ (Done(c) => ret[c].kind = "raised")

\* what JSON can carry: no instance, no unpaired surrogate, scalar keys
RECURSIVE JsonRepresentable(_)
JsonRepresentable(v) ==
    CASE v.t = "obj" -> FALSE
      [] v.t = "str" -> ~v.lone
      [] v.t \in {"list", "tuple"} ->
            \A i \in 1..Len(v.items) : JsonRepresentable(v.items[i])
      [] v.t = "dict" ->
            \A i \in 1..Len(v.pairs) :
                /\ v.pairs[i].key.t \notin {"list", "tuple", "dict", "obj"}
                /\ JsonRepresentable(v.pairs[i].key)
                /\ JsonRepresentable(v.pairs[i].val)
      [] OTHER -> TRUE
\* the value JSON hands back: sequences as lists, keys as text
RECURSIVE Decoded(_)
KeyText(k) ==
    CASE k.t = "str" -> k.s
      [] k.t = "int" -> ToString(k.n)
      [] k.t = "float" -> k.r
      [] k.t = "bool" -> IF k.b THEN "true" ELSE "false"
      [] k.t = "none" -> "null"
Decoded(v) ==
    CASE v.t \in {"list", "tuple"} -> PyList([i \in 1..Len(v.items) |-> Decoded(v.items[i])])
      [] v.t = "dict" ->
            PyDict([i \in 1..Len(v.pairs) |->
                        Pair(PyStr(KeyText(v.pairs[i].key)), Decoded(v.pairs[i].val))])
      [] OTHER -> v
RoundTripsEqual(v) == JsonRepresentable(v) /\ Decoded(v) = v

\* C2 as stated: json_safe({"a": v}) contains "a" if and only if v's JSON
\* encode-then-decode yields a value equal to v; a value whose decoded form
\* differs from it (a tuple, a mapping with integer keys) is not retained.
C2_KeptIffRoundTripsEqual ==
    (cd_op = "json_safe" /\ DOMAIN cd_ns = {"a"}) =>
        ("a" \in DOMAIN cd_out.safe <=> RoundTripsEqual(cd_ns["a"]))

\* C2 amended: json_safe never raises, and it retains an entry if and only if
\* its name is not reserved and its value and its key encode to JSON and decode
\* again without error; what is retained is the decoded form of the value.
C2_KeptIffEncodesAndDecodes ==
    cd_op = "json_safe" =>
        /\ cd_out.ok
        /\ \A k \in DOMAIN cd_ns :
            /\ k \in DOMAIN cd_out.safe <=>
                   (k \notin {"__builtins__"} /\ k # LoneName /\ JsonRepresentable(cd_ns[k]))
            /\ k \in DOMAIN cd_out.safe => cd_out.safe[k] = Decoded(cd_ns[k])
        /\ DOMAIN cd_out.safe \subseteq DOMAIN cd_ns
\* reached: json_safe applied to {"a": (1, 2)} returned {"a": [1, 2]}
C2_TupleKeptAsList ==
    /\ cd_op = "json_safe"
    /\ DOMAIN cd_ns = {"a"}
    /\ cd_ns["a"] = PyTuple(<<PyInt(1), PyInt(2)>>)
    /\ cd_out.safe = [n \in {"a"} |-> PyList(<<PyInt(1), PyInt(2)>>)]

\* the entries C3 is about: no usable JSON rendering for the display tier,
\* and a textual rendering that is empty or has 100 or more characters
NoShortJson(v) == ~Dumpable(v) \/ Len(JsonText(DumpToks(v))) > 100
EmptyOrLongText(v) == StrOk(v) /\ (Len(Str(v)) = 0 \/ Len(Str(v)) >= 100)
C3_Case(k) ==
    /\ cd_op = "reduce"
    /\ cd_out.ok
    /\ k \in DOMAIN cd_ns
    /\ k # "__builtins__"
    /\ NoShortJson(cd_ns[k])
    /\ EmptyOrLongText(cd_ns[k])

\* C3 as stated: such an entry has no entry in the display mapping; one whose
\* textual rendering has exactly 100 characters is in the full mapping and
\* absent from the display mapping.
C3_AbsentFromDisplay ==
    \A k \in CodecNames :
        C3_Case(k) =>
            /\ k \notin DOMAIN cd_out.display
            /\ Len(Str(cd_ns[k])) = 100 => k \in DOMAIN cd_out.full

\* C3 amended: such an entry never shows its value or its textual rendering in
\* the display mapping: the display mapping holds the name of its type for it,
\* and no entry only where the type has no name either; the full mapping holds
\* the value (as JSON decodes it) or its whole textual rendering.
C3_DisplayedAsTypeName ==
    \A k \in CodecNames :
        C3_Case(k) =>
            /\ TypeOk(cd_ns[k]) =>
                   (k \in DOMAIN cd_out.display
                        /\ cd_out.display[k] = PyStr(TypeName(cd_ns[k])))
            /\ ~TypeOk(cd_ns[k]) => k \notin DOMAIN cd_out.display
            /\ k \in DOMAIN cd_out.full
            /\ cd_out.full[k] = IF Dumpable(cd_ns[k]) THEN Decoded(cd_ns[k])
                                ELSE PyStr(Str(cd_ns[k]))
\* reached: an instance whose str() has exactly 100 characters is shown by
\* its type name in display and by its whole rendering in full
C3_ExactlyHundredShownAsType ==
    /\ cd_op = "reduce"
    /\ cd_out.ok
    /\ DOMAIN cd_ns = {"a"}
    /\ cd_ns["a"] = Wide
    /\ Len(Str(Wide)) = 100
    /\ cd_out.display = [n \in {"a"} |-> PyStr("<class 'Thing'>")]
    /\ cd_out.full = [n \in {"a"} |-> PyStr(Str(Wide))]

NoReservedNames(r) ==
    /\ "__builtins__" \notin DictKeys(r.display_vars)
    /\ "__builtins__" \notin DictKeys(r.real_vars)

\* C4 as stated: for every input namespace and every executed code, neither
\* the display mapping nor the full mapping of a returned record contains the
\* reserved name "__builtins__".
C4_NoReservedNames ==
    \A c \in CallIds : ret[c].kind = "record" => NoReservedNames(ret[c].record)

\* the code handed control back to the generated program, which then wrote
\* the framed segments itself
EpilogueRan(c) == exec(req[c].code, req[c].globals_dict).how = "ok"

\* C4 amended: for every input namespace and every executed code that hands
\* control back to the generated program, so that the display and full
\* segments are the ones its reduction wrote, neither mapping of the returned
\* record contains the reserved name "__builtins__".
C4_NoReservedNamesFromReduction ==
    \A c \in CallIds :
        (ret[c].kind = "record" /\ EpilogueRan(c)) => NoReservedNames(ret[c].record)
\* reached: a record returned for an input namespace that holds "__builtins__"
C4_RecordOfNamespaceWithBuiltins ==
    /\ ret[1].kind = "record"
    /\ EpilogueRan(1)
    /\ req[1].code = Code("assign", "a", Wide)
    /\ "__builtins__" \in DOMAIN req[1].globals_dict
    /\ DictKeys(ret[1].record.display_vars) = {"a"}
    /\ DictKeys(ret[1].record.real_vars) = {"a"}
    /\ DictGet(ret[1].record.display_vars, "a") = PyStr("<class 'Thing'>")

C6_BadFramingRaises ==
    \A c \in CallIds :
        (Isolated(c) /\ runner_calls[c] > 0 /\ res[c].status = 0
                     /\ Sentinels(res[c].stdout) # 3) =>
            /\ ret[c].kind = "raised"
            /\ ret[c].record = NoRecord
\* reached: the code wrote a sentinel line itself, five segments, ValueError
C6_ExtraSentinelRaises ==
    /\ Isolated(1)
    /\ req[1].code.op = "write_sentinel"
    /\ res[1].status = 0
    /\ Sentinels(res[1].stdout) = 4
    /\ ret[1].kind = "raised"
    /\ ret[1].exc = "ValueError"

\* C7: after a single call of not_safe_exec, on every exit path, the current
\* working directory is the prior one, the module search path holds exactly
\* the entries it held before the call, and the scratch directory is gone.
C7_ProcessStateRestored ==
    \A c \in CallIds :
        (UNSAFE /\ Done(c)) =>
            /\ cwd = HomeDir
            /\ heap[sys_path] = InitialPath
            /\ loc[c].tmpdir \notin dirs

\* C8: on the debug strategy every call of execute logs, before the code is
\* run, a warning that names the slug of the request, however the caller
\* supplied the slug (by keyword or by position).  (The strategy itself is
\* never assigned after the start of the process.)
C8_WarningNamesSlug ==
    \A c \in CallIds :
        (UNSAFE /\ Started(c)) =>
            \E i \in 1..Len(log) : log[i] = Warning(req[c].slug)

\* the call's code ran and ended without an error
CompletedWithoutError(c) ==
    /\ Done(c)
    /\ req[c].code.op \in {"assign", "write"}
    /\ UNSAFE => (~copy_fails(req[c]) /\ ~write_fails(req[c]))
    /\ ~UNSAFE => (runner_calls[c] = 1 /\ res[c].status = 0)

\* C9: under either strategy a call whose code completes without error
\* returns a record with raw output, opaque payload, display and full
\* mapping; for the code x = 1 + 1 the full and display mappings hold 2 for x
\* and the raw output is empty.
C9_SuccessReturnsRecord ==
    \A c \in CallIds :
        CompletedWithoutError(c) =>
            /\ ret[c].kind = "record"
            /\ req[c].code = Code("assign", "x", PyInt(2)) =>
                /\ ret[c].record.output = <<>>
                /\ "x" \in DictKeys(ret[c].record.real_vars)
                /\ DictGet(ret[c].record.real_vars, "x") = PyInt(2)
                /\ "x" \in DictKeys(ret[c].record.display_vars)
                /\ DictGet(ret[c].record.display_vars, "x") = PyInt(2)

\* a call is between switching into its scratch directory and restoring
InRegion(c) == pc[c] \in {"files", "path", "exec", "finally", "restore"}
AllFinished == \A c \in CallIds : pc[c] \in {"idle", "done"}
RanInOwnScratch(c) == Done(c) => loc[c].ran_in \in {"", TmpDir(c)}

\* C10 as stated: at most one call at a time is between switching into its
\* scratch directory and restoring the prior state, so once all calls have
\* finished the working directory and the module search path equal their
\* values before the first call, and no call ran its code in another call's
\* scratch directory.
C10_OneCallAtATime ==
    /\ \A c \in CallIds : \A o \in CallIds \ {c} : ~(InRegion(c) /\ InRegion(o))
    /\ AllFinished => (cwd = HomeDir /\ heap[sys_path] = InitialPath)
    /\ \A c \in CallIds : RanInOwnScratch(c)

\* C10 amended: not_safe_exec holds no critical section of its own, so
\* concurrent calls can overlap; when the caller serializes the calls (no call
\* starts while another is in progress), every call runs its code in its own
\* scratch directory and, once the calls have finished, the working directory
\* is the one before the first call and no scratch directory is left.
C10_SerializedCallsRestore ==
    ~overlapped =>
        /\ \A c \in CallIds : Done(c) => loc[c].ran_in = TmpDir(c)
        /\ AllFinished => (cwd = HomeDir /\ dirs = {HomeDir})
\* reached: every call made, one after another, and all of them finished
C10_TwoSerializedCallsDone ==
    /\ ~overlapped
    /\ \A c \in CallIds : Done(c)
    /\ cwd = HomeDir
====
